---- MODULE Spec2Model ----
(***************************************************************************)
(* Job lifecycle of the Sales Navigator scraper: the request handlers of   *)
(* routes/scrapeRoutes.js, the background task runScrape and the job store *)
(* utils/jobsManager.js.  Every await of the source is a point where other *)
(* handlers and other runScrape instances may run, so every await is the   *)
(* boundary between two actions.                                           *)
(*                                                                         *)
(* URLs are modelled by the number of the result page they show: the       *)
(* job's original url is page 1 and page.url() is the displayed page.      *)
(***************************************************************************)
EXTENDS Integers, FiniteSets, Sequences, TLC

\* ---------------------------------------------------------------- bounds
\* job ids in use
MaxJobs == 2
\* runScrape invocations that can be in progress at once
MaxRunners == 2
\* result pages of a search
MaxPage == 2
\* requests and failures of a sub-step a run of the system contains
MaxEvents == 3
\* profiles a result page shows, at most
MaxProfiles == 1
\* characters of a list name
MaxLen == 3
\* ticks of the clock in a run
MaxClock == 2
\* ticks of the clock in a second
TicksPerSecond == 2

Ids == 1..MaxJobs
NoId == 0
Runners == 1..MaxRunners

VARIABLES
  started,        \* loadJobs() of the startup sequence has completed
  startup,        \* progress of loadJobs and cleanupOldJobs, see Start
  jobObj,         \* the job objects, by id (one object per id)
  jobs,           \* ids in the map scrapeRoutes.js holds as `jobs`
  jobsCache,      \* ids in jobsManager's jobsCache (what getJobs/getJob read)
  disk,           \* all_jobs/<id>.json
  pending,        \* ids with a fire-and-forget updateJob write in flight
  creating,       \* ids whose POST /scrape handler awaits setJob
  scrapeSession,  \* isScraping, isPaused, pauseRequested, currentJobId
  runners,        \* the runScrape invocations
  budget,         \* requests and failures the environment may still produce
  profiles,       \* profiles a result page shows
  csv,            \* data/<id>.csv: the rows of each profile URL, by id
  pagesDone,      \* history: highest page whose iteration ended with 'moved'
  clock,          \* the time, in ticks
  ids,            \* the id strings of the job records POST /scrape has made
  rejected,       \* history: the requests POST /scrape has rejected, their
                  \* number and the scrapeSession the last one found
  file,           \* a CSV file of data/: its header line and its row lines
  saved,          \* history: the last save of rows and the file it found
  view,           \* the result page the browser shows
  coming,         \* what the page is about to show, after a click or a load
  nav,            \* a call of clickNextPage: its position and its history
  attempted,      \* history: the pages of each job runContactOut was called on
  orch            \* a call of runContactOut or of ensureSidebarReadyWithRetries:
                  \* its position in the retry loop and its history

vars == <<started, startup, jobObj, jobs, jobsCache, disk, pending, creating,
          scrapeSession, runners, budget, profiles, csv, pagesDone,
          clock, ids, rejected, file, saved, view, coming, nav, attempted,
          orch>>

\* what only the saving of rows to a CSV file reads and writes, and what
\* only a call of clickNextPage taken by itself does
fileVars == <<file, saved, view, coming, nav, attempted, orch>>
csvVars == <<file, saved>>
navVars == <<view, coming, nav>>

\* what only POST /scrape, taken with its inputs, reads and writes
reqVars == <<clock, ids, rejected>>

\* ------------------------------------------------------------- job records
NoJob ==
  [state |-> "absent", pageIndex |-> 0, currentUrl |-> 0,
   totalRows |-> 0, totalContacts |-> 0, stateReason |-> "none"]

NewJob ==
  [state |-> "running", pageIndex |-> 1, currentUrl |-> 1,
   totalRows |-> 0, totalContacts |-> 0, stateReason |-> "none"]

\* a job file a previous process may have left behind
StoredJob ==
  [state |-> "paused", pageIndex |-> 2, currentUrl |-> 2,
   totalRows |-> 0, totalContacts |-> 0, stateReason |-> "none"]

IdleRunner ==
  [pc |-> "idle", jobId |-> NoId, origin |-> "none", currentPage |-> 0,
   url |-> 0, session |-> "none", navStatus |-> "none", wr |-> FALSE,
   shRows |-> 0, calls |-> <<>>]

\* the profile URLs of a search: a result page shows one profile, whose URL
\* is modelled by the number of the page
Urls == 1..MaxPage

\* a CSV file without data rows (or no file)
NoRows == [u \in Urls |-> 0]

\* -------------------------------------------- POST /scrape, its inputs
\* a string is the sequence of its characters; a URL, or the name of a CSV
\* column, is the sequence of its parts
Blank == " "
Chars == {"a", Blank}
Strings == UNION {[1..m -> Chars] : m \in 0..MaxLen}

\* a field of a request body: a string, or a value that is no string
Text(s) == [type |-> "string", text |-> s]
NoString == [type |-> "number", text |-> <<>>]

UrlTexts ==
  { <<>>,
    <<"https://www.", "linkedin.com", "/sales/search/", "people", "?query=x">>,
    <<"https://www.", "LinkedIn.com", "/sales/search/", "People", "?query=x">>,
    <<"https://www.", "linkedin.com", "/sales/search/", "company", "?query=x">>,
    <<"https://www.", "example.com", "/", "people">> }

Requests ==
  [url : {NoString} \cup {Text(u) : u \in UrlTexts},
   listName : {NoString} \cup {Text(s) : s \in Strings},
   cookie : BOOLEAN]

toLowerCase(s) ==
  [i \in 1..Len(s) |-> CASE s[i] = "LinkedIn.com" -> "linkedin.com"
                          [] s[i] = "People" -> "people"
                          [] s[i] = "Website" -> "website"
                          [] s[i] = "Email" -> "email"
                          [] s[i] = "LinkedIn URL" -> "linkedin url"
                          [] s[i] = "LinkedIn" -> "linkedin"
                          [] s[i] = "Profile" -> "profile"
                          [] OTHER -> s[i]]

includes(s, part) == \E i \in 1..Len(s) : s[i] = part

RECURSIVE trimStart(_)
trimStart(s) ==
  IF s # <<>> /\ Head(s) = Blank THEN trimStart(Tail(s)) ELSE s

RECURSIVE trimEnd(_)
trimEnd(s) ==
  IF s # <<>> /\ s[Len(s)] = Blank THEN trimEnd(SubSeq(s, 1, Len(s) - 1)) ELSE s

trim(s) == trimEnd(trimStart(s))

\* the URL names linkedin.com and people, in any case
SearchResultsShape(url) ==
  /\ includes(toLowerCase(url), "linkedin.com")
  /\ includes(toLowerCase(url), "people")

\* the validation without its last test
NoCookieTest(req) ==
  IF req.url.type # "string" \/ req.url.text = <<>>
  THEN "URL is required."
  ELSE IF \/ req.listName.type # "string"
          \/ req.listName.text = <<>>
          \/ trim(req.listName.text) = <<>>
  THEN "List name is required."
  ELSE IF ~SearchResultsShape(req.url.text)
  THEN "Not valid"
  ELSE "none"

\* the validation of POST /scrape: the error it answers with, or "none"
Rejection(req) ==
  IF req.url.type # "string" \/ req.url.text = <<>>
  THEN "URL is required."
  ELSE IF \/ req.listName.type # "string"
          \/ req.listName.text = <<>>
          \/ trim(req.listName.text) = <<>>
  THEN "List name is required."
  ELSE IF ~SearchResultsShape(req.url.text)
  THEN "Not valid"
  ELSE IF ~req.cookie
  THEN "No cookie saved."
  ELSE "none"

\* listName.replace(/\s+/g, '_')
RECURSIVE slug(_)
slug(s) ==
  IF s = <<>> THEN <<>>
  ELSE IF Head(s) = Blank THEN <<"_">> \o slug(trimStart(s))
  ELSE <<Head(s)>> \o slug(Tail(s))

\* YYYYMMDD_HHMMSS of the time `now`: the second it lies in
timestampString(now) == now \div TicksPerSecond

\* `${slug}_${timestamp}`
JobIdOf(listName, now) == <<slug(listName), timestampString(now)>>

NoJobId == <<>>

\* ---------------------------------------------------------- the CSV file
\* rows a CSV file holds, at most
MaxFileRows == 3
\* rows one save writes, at most
MaxBatch == 2
\* profile URLs that differ in more than their letter case
MaxUrls == 1

Column(key, header) == [key |-> key, header |-> header]

BASE_COLUMNS ==
  << Column("name", <<"Name">>),
     Column("first_name", <<"First Name">>),
     Column("last_name", <<"Last Name">>),
     Column("title", <<"Title">>),
     Column("company", <<"Company">>),
     Column("person_location", <<"Location">>),
     Column("person_title", <<"LinkedIn URL">>) >>

EXT_DOMAIN == BASE_COLUMNS \o <<Column("domain", <<"Website">>)>>
EXT_DOMAIN_EMAIL == EXT_DOMAIN \o <<Column("Email", <<"Email">>)>>
EXT_EMAIL == BASE_COLUMNS \o <<Column("Email", <<"Email">>)>>

\* the columns of the files earlier versions wrote: domain1 and domain2
Domain1 == Column("domain1", <<"domain", "1">>)
Domain2 == Column("domain2", <<"domain", "2">>)

\* columns.map((c) => esc(c.header)): the names of a header line
HeaderOf(columns) == [i \in 1..Len(columns) |-> columns[i].header]

\* the header lines a file of data/ can have: those this version and the
\* earlier versions wrote
Headers ==
  { HeaderOf(c) : c \in { BASE_COLUMNS, EXT_DOMAIN, EXT_DOMAIN_EMAIL, EXT_EMAIL,
                          BASE_COLUMNS \o <<Domain1>>,
                          BASE_COLUMNS \o <<Domain1, Domain2>>,
                          BASE_COLUMNS \o <<Domain1, Column("Email", <<"Email">>)>>,
                          BASE_COLUMNS \o <<Domain1, Domain2,
                                            Column("Email", <<"Email">>)>> } }

\* the empty string
Empty == [key |-> "", of |-> 0]

\* the value of `key` of profile p, written by esc(); profile -p is profile
\* p with its texts in the other letter case, p = 0 gives the empty string
Field(key, p) == IF p = 0 THEN Empty ELSE [key |-> key, of |-> p]

\* value.trim().toLowerCase()
normalize(value) ==
  IF value.of < 0 THEN [value EXCEPT !.of = 0 - value.of] ELSE value

\* a profile object: its number and the keys it has
Profile(p, keys) == [id |-> p, keys |-> keys]

\* the keys runSignalHire gives every row it saves, and the keys of a row
\* whose every field was extracted
EnsuredKeys == {"first_name", "last_name", "domain", "Email"}
ExtractedKeys ==
  EnsuredKeys \cup {"name", "title", "company", "person_location", "person_title"}

\* columns.map((c) => esc(r[c.key] ?? '')): the line of the profile object r
Line(r, columns) ==
  [i \in 1..Len(columns) |->
     Field(columns[i].key, IF columns[i].key \in r.keys THEN r.id ELSE 0)]

\* no file at the path; the style of a file is "esc" when saveProfilesCsv
\* wrote its every line (BOM, every field quoted, CRLF), "stringify" when
\* csv-stringify did (BOM, quotes where needed, LF), and "mixed"
NoFile == [exists |-> FALSE, header |-> <<>>, rows |-> <<>>, style |-> "none"]
NotSaved == [op |-> "none", rows |-> <<>>, before |-> NoFile]

\* the names of a header, joined by commas
RECURSIVE join(_)
join(names) ==
  IF names = <<>> THEN <<>>
  ELSE IF Len(names) = 1 THEN Head(names)
  ELSE Head(names) \o <<",">> \o join(Tail(names))

\* the first line of the file
readHeaderLine(f) == join(f.header)

\* lc.includes(word), for a word of several parts
includesWord(s, word) ==
  \E i \in 0..(Len(s) - Len(word)) : SubSeq(s, i + 1, i + Len(word)) = word

chooseColumnsForExistingHeader(headerLine) ==
  LET lc == toLowerCase(headerLine)
      hasDomain == includesWord(lc, <<"domain">>) \/ includesWord(lc, <<"website">>)
      hasDomain1 == includesWord(lc, <<"domain", "1">>)
      hasDomain2 == includesWord(lc, <<"domain", "2">>)
      hasEmail == includesWord(lc, <<"email">>)
      Email == Column("Email", <<"Email">>)
  IN IF hasDomain /\ hasEmail THEN EXT_DOMAIN_EMAIL
     ELSE IF hasDomain THEN EXT_DOMAIN
     ELSE IF hasDomain1 /\ hasDomain2 /\ hasEmail
     THEN BASE_COLUMNS \o <<Domain1, Domain2, Email>>
     ELSE IF hasDomain1 /\ hasDomain2 THEN BASE_COLUMNS \o <<Domain1, Domain2>>
     ELSE IF hasDomain1 /\ hasEmail THEN BASE_COLUMNS \o <<Domain1, Email>>
     ELSE IF hasDomain1 THEN BASE_COLUMNS \o <<Domain1>>
     ELSE IF hasEmail THEN EXT_EMAIL
     ELSE BASE_COLUMNS

\* saveProfilesCsv(rows, {filePath, append}): the file at filePath after the
\* call; rows are the profiles to write, append is "true", "false" or
\* "undefined"
writeProfilesCsv(rows, f, append) ==
  IF rows = <<>> THEN f
  ELSE
    LET fileExists == f.exists
        shouldAppend == append = "true" \/ (append = "undefined" /\ fileExists)
        columns == IF fileExists
                   THEN chooseColumnsForExistingHeader(readHeaderLine(f))
                   ELSE EXT_DOMAIN_EMAIL
        header == HeaderOf(columns)
        body == [i \in 1..Len(rows) |-> Line(rows[i], columns)]
    IN IF shouldAppend /\ fileExists
       THEN [f EXCEPT !.rows = @ \o body,
                      !.style = IF @ = "esc" THEN "esc" ELSE "mixed"]
       ELSE [exists |-> TRUE, header |-> header, rows |-> body,
             style |-> "esc"]

\* upgradeCsvAddEmailOnly(filePath): an old file gets an Email column, its
\* header is rewritten and its rows get an empty value
upgradeCsvAddEmailOnly(f) ==
  IF ~f.exists \/ includesWord(toLowerCase(readHeaderLine(f)), <<"email">>)
  THEN f
  ELSE [f EXCEPT !.header = @ \o <<(<<"Email">>)>>,
                 !.rows = [i \in 1..Len(f.rows) |-> f.rows[i] \o <<Empty>>]]

\* keyAliases, the default of deduplicateCsv
keyAliases == << <<"LinkedIn URL">>, <<"LinkedIn">>, <<"person_title">> >>

\* the column of the header that has the name of the first alias any column
\* has, letter case apart; 0 when no column has the name of an alias
keyCol(header) ==
  LET found(a) == { i \in 1..Len(header) :
                      toLowerCase(header[i]) = toLowerCase(keyAliases[a]) }
      matching == { a \in 1..Len(keyAliases) : found(a) # {} }
      first == CHOOSE a \in matching : \A b \in matching : a <= b
  IN IF matching = {} THEN 0
     ELSE CHOOSE i \in found(first) : \A j \in found(first) : i <= j

\* (row[keyCol] || '').toString().trim().toLowerCase()
keyOf(row, col) == IF col <= Len(row) THEN normalize(row[col]) ELSE Empty

\* the loop stopping at the first duplicate it drops
RECURSIVE keepFirstOnce(_, _, _)
keepFirstOnce(rows, col, seen) ==
  IF rows = <<>> THEN <<>>
  ELSE LET key == keyOf(Head(rows), col)
       IN IF key = Empty
          THEN <<Head(rows)>> \o keepFirstOnce(Tail(rows), col, seen)
          ELSE IF key \in seen THEN Tail(rows)
          ELSE <<Head(rows)>> \o keepFirstOnce(Tail(rows), col, seen \cup {key})

\* the loop over the parsed rows: the rows it pushes to `deduped`
RECURSIVE keepFirst(_, _, _)
keepFirst(rows, col, seen) ==
  IF rows = <<>> THEN <<>>
  ELSE LET key == keyOf(Head(rows), col)
       IN IF key = Empty THEN <<Head(rows)>> \o keepFirst(Tail(rows), col, seen)
          ELSE IF key \in seen THEN keepFirst(Tail(rows), col, seen)
          ELSE <<Head(rows)>> \o keepFirst(Tail(rows), col, seen \cup {key})

\* deduplicateCsv(filePath): the file after the call.  parse() makes an
\* object of every line, with the header names as keys and as many of them
\* as the line has fields; stringify() writes the columns of the first
\* object, an object without a column getting the empty string
deduplicateCsvFile(f) ==
  IF ~f.exists \/ f.rows = <<>> THEN f
  ELSE
    LET width == IF Len(f.rows[1]) < Len(f.header)
                 THEN Len(f.rows[1]) ELSE Len(f.header)
        header == SubSeq(f.header, 1, width)
        col == keyCol(header)
        deduped == keepFirst(f.rows, col, {})
        written(row) == [i \in 1..width |->
                           IF i <= Len(row) THEN row[i] ELSE Empty]
    IN IF col = 0 THEN f
       ELSE [exists |-> TRUE, header |-> header,
             rows |-> [i \in 1..Len(deduped) |-> written(deduped[i])],
             style |-> "stringify"]

\* the URL column of an earlier version's file, under the names
\* deduplicateCsv looks for and under a name it does not look for
UrlColumns ==
  { Column("person_title", <<"LinkedIn URL">>),
    Column("person_title", <<"LinkedIn">>),
    Column("person_title", <<"person_title">>),
    Column("person_title", <<"Profile">>) }

\* every column a file can have
KnownColumns ==
  { BASE_COLUMNS[i] : i \in 1..Len(BASE_COLUMNS) } \cup UrlColumns \cup
  { Column("domain", <<"Website">>), Column("Email", <<"Email">>),
    Domain1, Domain2 }

\* the headers of the files whose URL column has another name
AliasHeaders ==
  { HeaderOf(SubSeq(BASE_COLUMNS, 1, Len(BASE_COLUMNS) - 1) \o <<c>>) :
      c \in UrlColumns }

\* the profiles a save can be given, and the batches of them: the URLs of
\* the rows of a batch differ
ProfileIds == { p \in (0 - MaxUrls)..MaxUrls : p # 0 }
Profiles ==
  { Profile(p, k \cup EnsuredKeys) :
      p \in ProfileIds, k \in {ExtractedKeys, ExtractedKeys \ {"person_title"}} }
Batches ==
  { b \in UNION { [1..n -> Profiles] : n \in 0..MaxBatch } :
      \A i, j \in 1..Len(b) :
        (i # j /\ "person_title" \in b[i].keys /\ "person_title" \in b[j].keys)
          => normalize(Field("person_title", b[i].id))
               # normalize(Field("person_title", b[j].id)) }

\* the files the process can find at a job's filePath: none, or one of an
\* earlier run or an earlier version, its rows written under its header
OldLine(p, header) ==
  [i \in 1..Len(header) |->
     Field((CHOOSE c \in KnownColumns : c.header = header[i]).key, p)]
FoundFiles ==
  {NoFile} \cup
  { [exists |-> TRUE, header |-> h, rows |-> [i \in 1..n |-> OldLine(i, h)],
     style |-> "esc"] :
      h \in Headers \cup AliasHeaders, n \in 0..1 }

\* no orchestrator has been called: `fn` is the orchestrator, `attempt` the
\* loop variable, `lastError` what the last catch caught; history: the
\* loop bodies entered, the bodies that ended in the catch, the re-logins of
\* the current body, the calls of safeReload, the profiles returned
IdleOrch ==
  [fn |-> "none", pc |-> "idle", retries |-> 0, attempt |-> 0,
   lastError |-> "none", entered |-> 0, failed |-> 0, relogins |-> 0,
   reloads |-> 0, profiles |-> 0]

\* startup.read: loadJobs has read the job files into its local map, which
\* is startup.files; startup.swept: cleanupOldJobs has completed;
\* startup.old: the job files older than the retention period
StartJobs(d, old, b) ==
  /\ started = FALSE
  /\ startup = [read |-> FALSE, files |-> [i \in Ids |-> NoJob],
                swept |-> FALSE, old |-> old]
  /\ jobObj = [i \in Ids |-> NoJob]
  /\ jobs = {}
  /\ jobsCache = {}
  /\ disk = d
  /\ pending = {}
  /\ creating = {}
  /\ scrapeSession = [isScraping |-> FALSE, isPaused |-> FALSE,
                      pauseRequested |-> FALSE, currentJobId |-> NoId]
  /\ runners = [r \in Runners |-> IdleRunner]
  /\ budget = b
  /\ profiles \in 0..MaxProfiles
  /\ csv = [i \in Ids |-> NoRows]
  /\ pagesDone = [i \in Ids |-> IF d[i] = NoJob THEN 0 ELSE d[i].currentUrl - 1]
  /\ clock = 0
  /\ ids = [i \in Ids |-> NoJobId]
  /\ rejected = [n |-> 0, session |-> scrapeSession]
  /\ attempted = [i \in Ids |-> {}]
  /\ orch = IdleOrch

\* ------------------------------------------------------- clickNextPage
\* attempts of the click loop
MAX_ATTEMPTS == 3
\* polls of waitForPageChangeOrStop before its deadline: settleMs / pollMs
MaxPolls == 1
\* fingerprints the lists of a search have in one call, the one at the call
\* included
MaxLists == 3
\* fingerprints one result page can have: the rows are rendered lazily, and
\* getListFingerprint reads the first row, the last row and the number of
\* rows that are rendered
Renderings == 2

\* the result page whose list has the fingerprint fp
PageOf(fp) == (fp + Renderings - 1) \div Renderings

\* a result page: the banner 'No leads matched your search', the Next
\* button, a numbered button of the page after the current one, the page
\* state reading 'Page n of n', and the fingerprint of the list (0 is '',
\* the fingerprint of a page without rows); the page with the banner has no
\* list and no pagination, and the last page no button of a next page
Views ==
  { v \in [banner : BOOLEAN, next : {"absent", "disabled", "enabled"},
           numbered : BOOLEAN, last : BOOLEAN, fp : 0..MaxLists] :
      /\ v.banner => (v.fp = 0 /\ v.next = "absent" /\ ~v.numbered /\ ~v.last)
      /\ v.next = "disabled" => (v.last /\ ~v.numbered)
      /\ v.last => ~v.numbered }

NoView == [banner |-> FALSE, next |-> "none", numbered |-> FALSE,
           last |-> FALSE, fp |-> 0]

\* no call of clickNextPage.  clicks, reloads and jumps count the clicks of
\* a pagination control, the reloads and the page.goto of the call;
\* atStart is the page at the call; other: a list other than the one at the
\* call was shown; signal: the banner, a disabled Next button or the last
\* page state was shown
IdleNav ==
  [pc |-> "idle", attempt |-> 0, polls |-> 0, rescue |-> FALSE, beforeKey |-> 0,
   result |-> "none", clicks |-> 0, reloads |-> 0, jumps |-> 0,
   atStart |-> NoView, other |-> FALSE, signal |-> FALSE]

isNoLeads(v) == v.banner

\* the Next button is disabled, or the page state reads current >= total
isOnLastPage(v) == v.next = "disabled" \/ v.last

\* afterKey && beforeKey && afterKey !== beforeKey
changed(beforeKey, afterKey) ==
  afterKey # 0 /\ beforeKey # 0 /\ afterKey # beforeKey

\* the history of the call, the page v being shown
Seen(n, v) ==
  [n EXCEPT !.other = @ \/ v.fp # n.atStart.fp,
            !.signal = @ \/ isNoLeads(v) \/ isOnLastPage(v)]

Return(n, result) == [n EXCEPT !.pc = "done", !.result = result]

\* the page shows what was coming
Render ==
  /\ coming # NoView
  /\ view' = coming
  /\ coming' = NoView
  /\ nav' = IF nav.pc \in {"idle", "done"} THEN nav ELSE Seen(nav, coming)

\* clickNextPage is called: the end conditions, then the fingerprint
navStart ==
  /\ nav.pc = "idle"
  /\ coming = NoView
  /\ LET n == Seen([IdleNav EXCEPT !.atStart = view], view)
     IN nav' = IF isNoLeads(view) \/ isOnLastPage(view)
               THEN Return(n, "no-more")
               ELSE [n EXCEPT !.pc = "attempt", !.attempt = 1,
                              !.beforeKey = view.fp]
  /\ UNCHANGED <<view, coming>>

\* one attempt more than MAX_ATTEMPTS
OneMoreTry(n) ==
  IF n.rescue THEN [n EXCEPT !.pc = "jump"]
  ELSE IF n.attempt <= MAX_ATTEMPTS
  THEN [n EXCEPT !.pc = "attempt", !.attempt = @ + 1]
  ELSE [n EXCEPT !.pc = "reload"]

\* after an attempt without a change, or with an error: the next attempt,
\* then rescue 1, then rescue 2
NextTry(n) ==
  IF n.rescue THEN [n EXCEPT !.pc = "jump"]
  ELSE IF n.attempt < MAX_ATTEMPTS
  THEN [n EXCEPT !.pc = "attempt", !.attempt = @ + 1]
  ELSE [n EXCEPT !.pc = "reload"]

\* the click of an attempt or of rescue 1: the numbered button if there is
\* one, else the Next button, which may be missing (an error) or disabled
\* ('no-more'); safeClick may fail too; a click makes the page show what it
\* likes, sooner or later
navClick ==
  /\ nav.pc \in {"attempt", "afterReload"}
  /\ IF ~view.numbered /\ view.next = "absent"
     THEN nav' = NextTry(nav) /\ UNCHANGED coming
     ELSE IF ~view.numbered /\ view.next = "disabled"
     THEN nav' = Return(nav, "no-more") /\ UNCHANGED coming
     ELSE \/ nav' = NextTry(nav) /\ UNCHANGED coming
          \/ /\ nav' = [nav EXCEPT !.pc = "poll", !.polls = 0,
                                   !.clicks = @ + 1]
             /\ coming' \in Views \cup {NoView}
  /\ UNCHANGED view

\* one round of waitForPageChangeOrStop, or its deadline
navPoll ==
  /\ nav.pc = "poll"
  /\ nav' = IF nav.polls = MaxPolls THEN NextTry(nav)
            ELSE IF isNoLeads(view) THEN Return(nav, "no-more")
            ELSE IF changed(nav.beforeKey, view.fp) THEN Return(nav, "moved")
            ELSE [nav EXCEPT !.polls = @ + 1]
  /\ UNCHANGED <<view, coming>>

\* rescue 1: reloadAndWaitForSalesDashboard, the page showing what it likes
navReload ==
  /\ nav.pc = "reload"
  /\ \E v \in Views :
       /\ view' = v
       /\ nav' = Seen([nav EXCEPT !.pc = "reloaded", !.reloads = @ + 1,
                                  !.rescue = TRUE], v)
  /\ coming' = NoView

\* changedSince after the reload
navReloaded ==
  /\ nav.pc = "reloaded"
  /\ nav' = IF changed(nav.beforeKey, view.fp) THEN Return(nav, "moved")
            ELSE [nav EXCEPT !.pc = "afterReload"]
  /\ UNCHANGED <<view, coming>>

\* rescue 2: page.goto(nextUrl), which may fail, then changedSince and the
\* last checks
navJump ==
  /\ nav.pc = "jump"
  /\ \E v \in Views \cup {NoView} :
       LET shown == IF v = NoView THEN view ELSE v
           n == Seen([nav EXCEPT !.jumps = @ + 1], shown)
       IN /\ view' = shown
          /\ nav' = IF v # NoView /\ changed(nav.beforeKey, shown.fp)
                    THEN Return(n, "moved")
                    ELSE IF isNoLeads(shown) \/ isOnLastPage(shown)
                    THEN Return(n, "no-more")
                    ELSE Return(n, "failed")
  /\ coming' = NoView

\* the caller has the answer
navReturn ==
  /\ nav.pc = "done"
  /\ nav' = IdleNav
  /\ UNCHANGED <<view, coming>>

\* the steps of clickNextPage
navStep ==
  navStart \/ navClick \/ navPoll \/ navReload \/ navReloaded \/ navJump
  \/ navReturn

\* the state after construction, no CSV file and no page being looked at
Start(d, old, b) ==
  /\ StartJobs(d, old, b)
  /\ file = NoFile
  /\ saved = NotSaved
  /\ view = NoView
  /\ coming = NoView
  /\ nav = IdleNav

\* the job files the process finds: none, or one left by an earlier process
Init ==
  \E d \in { f \in [Ids -> {StoredJob, NoJob}] :
               \A i \in Ids : i > 1 => f[i] = NoJob } :
    Start(d, {}, MaxEvents)

\* the process finds one job file, so that one job is created, and the
\* environment produces one event more
InitOneJob ==
  Start([i \in Ids |-> IF i = 1 THEN StoredJob ELSE NoJob], {}, MaxEvents + 1)

\* the process finds one job file, which is older than the retention period
InitSweep ==
  Start([i \in Ids |-> IF i = 1 THEN StoredJob ELSE NoJob], {1}, MaxEvents)

\* the environment produces n more events
Spend(n) ==
  /\ budget >= n
  /\ budget' = budget - n

Cost(failed) == IF failed THEN 1 ELSE 0

\* ------------------------------------------------------------ jobsManager
\* loadJobs: reads every job file into a fresh map and makes it jobsCache.
\* readJobFiles is loadJobs up to the end of its loop.
\* The map scrapeRoutes.js took from getJobs() at require time is the old
\* one and is left as it was.
readJobFiles ==
  /\ ~started
  /\ ~startup.read
  /\ startup' = [startup EXCEPT !.read = TRUE, !.files = disk]
  /\ UNCHANGED <<fileVars, reqVars, started, profiles, csv, budget, jobObj, jobs, jobsCache, disk,
                 pending, creating, scrapeSession, runners, pagesDone>>

\* loadJobs, its last statement: the map that was read becomes jobsCache
loadJobs ==
  /\ ~started
  /\ startup.read
  /\ started' = TRUE
  /\ jobsCache' = {i \in Ids : startup.files[i] # NoJob}
  /\ jobObj' = [i \in Ids |-> IF startup.files[i] # NoJob \/ i \notin jobs
                              THEN startup.files[i] ELSE jobObj[i]]
  /\ startup' = [startup EXCEPT !.files = [i \in Ids |-> NoJob]]
  /\ UNCHANGED <<fileVars, reqVars, profiles, csv, budget, jobs, disk, pending, creating,
                 scrapeSession, runners, pagesDone>>

\* cleanupOldJobs: unlinks every job file older than the retention period
\* and deletes its id from the map that is jobsCache at that moment.  A job
\* that no map holds any more is forgotten (its id is free again).
cleanupOldJobs ==
  LET forgotten == IF started \/ ~startup.read THEN startup.old ELSE {} IN
  /\ ~startup.swept
  /\ startup' = [startup EXCEPT !.swept = TRUE, !.old = {}]
  /\ disk' = [i \in Ids |-> IF i \in startup.old THEN NoJob ELSE disk[i]]
  /\ jobsCache' = jobsCache \ startup.old
  /\ jobObj' = [i \in Ids |-> IF i \in forgotten THEN NoJob ELSE jobObj[i]]
  /\ pagesDone' = [i \in Ids |-> IF i \in forgotten THEN 0 ELSE pagesDone[i]]
  /\ UNCHANGED <<fileVars, reqVars, started, profiles, csv, budget, jobs, pending, creating,
                 scrapeSession, runners>>

Merge(job, updates) ==
  [f \in DOMAIN job |-> IF f \in DOMAIN updates THEN updates[f] ELSE job[f]]

\* updateJob, synchronous part: Object.assign onto the cached object.  For
\* an id that is not cached the fresh {} has no id, saveJob throws and the
\* callers swallow the rejection.
updateJob(obj, cache, id, updates) ==
  IF id \in cache THEN [obj EXCEPT ![id] = Merge(@, updates)] ELSE obj

\* saveJob reaches writeFile only for a job that has an id
saveIssued(cache, id) == id \in cache

\* saveJob, completion of a write nobody awaits: the file gets the object as
\* it is serialised, and the object is (re)entered in jobsCache
saveJob(id) ==
  /\ started
  /\ id \in pending
  /\ pending' = pending \ {id}
  /\ disk' = [disk EXCEPT ![id] = jobObj[id]]
  /\ jobsCache' = jobsCache \cup {id}
  /\ UNCHANGED <<fileVars, reqVars, startup, profiles, csv, started, budget, jobObj, jobs, creating, scrapeSession,
                 runners, pagesDone>>

\* ----------------------------------------------------- runScrape, start
FreeSlots == {r \in Runners : runners[r].pc = "idle"}
FreeSlot == CHOOSE r \in FreeSlots : \A q \in FreeSlots : r <= q

FlagsOff(ss) == [ss EXCEPT !.isScraping = FALSE, !.isPaused = FALSE]

\* the fields every pause/completion write of runScrape passes to updateJob
Progress(job, st) ==
  [state |-> st, pageIndex |-> job.pageIndex, currentUrl |-> job.currentUrl,
   totalRows |-> job.totalRows, totalContacts |-> job.totalContacts]

\* runScrape up to its first await, called by a handler that has already
\* changed the session to ss, the objects to obj and the writes in flight to
\* pend.  hasCookie is what getCookieFilePath() finds.
runScrapeStart(ss, obj, pend, origin, hasCookie) ==
  LET id == ss.currentJobId
      r == FreeSlot
  IN
  IF id \notin jobs'
  THEN /\ scrapeSession' = FlagsOff(ss)
       /\ jobObj' = obj
       /\ pending' = pend
       /\ runners' = runners
  ELSE IF ~hasCookie
  THEN LET obj1 == [obj EXCEPT ![id].state = "paused"]
       IN /\ scrapeSession' = FlagsOff(ss)
          /\ jobObj' = updateJob(obj1, jobsCache', id, Progress(obj1[id], "paused"))
          /\ pending' = pend
          /\ runners' = [runners EXCEPT ![r] =
                 [IdleRunner EXCEPT !.pc = "wfinal", !.jobId = id,
                                    !.wr = saveIssued(jobsCache', id)]]
  ELSE /\ scrapeSession' = ss
       /\ jobObj' = obj
       /\ pending' = pend
       /\ runners' = [runners EXCEPT ![r] =
              [IdleRunner EXCEPT !.pc = "launch", !.jobId = id,
                                 !.origin = origin,
                                 !.url = obj[id].currentUrl]]

\* ------------------------------------------------------------- handlers
\* a request arrives at a server whose startup load and sweep are done; the
\* request and the failures its handler runs into count as events
Request(failures) ==
  /\ started
  /\ startup.swept
  /\ Spend(1 + failures)

\* the ids a client can name in a request: the ones GET /jobs lists and the
\* ones a POST /scrape response has returned
KnownIds == (jobs \cup jobsCache) \ creating

\* POST /stop
Stop ==
  LET id == scrapeSession.currentJobId IN
  /\ Request(0)
  /\ scrapeSession.isScraping /\ id # NoId /\ id \in jobs
  /\ scrapeSession' = [scrapeSession EXCEPT !.pauseRequested = TRUE]
  /\ jobObj' = [jobObj EXCEPT ![id].state = "pausing"]
  /\ pending' = IF saveIssued(jobsCache, id) THEN pending \cup {id} ELSE pending
  /\ UNCHANGED <<fileVars, reqVars, startup, profiles, csv, started, jobs, jobsCache, disk, creating, runners, pagesDone>>

\* POST /resume
Resume ==
  LET id == scrapeSession.currentJobId IN
  /\ FreeSlots # {}
  /\ scrapeSession.isPaused /\ id # NoId /\ id \in jobs
  /\ UNCHANGED <<fileVars, reqVars, startup, profiles, csv, started, jobs, jobsCache, disk, creating, pagesDone>>
  /\ \E hasCookie \in BOOLEAN :
       /\ Request(Cost(~hasCookie))
       /\ runScrapeStart(
            [scrapeSession EXCEPT !.isPaused = FALSE, !.isScraping = TRUE,
                                  !.pauseRequested = FALSE],
            [jobObj EXCEPT ![id].state = "running"],
            IF saveIssued(jobsCache, id) THEN pending \cup {id} ELSE pending,
            "resume", hasCookie)

\* the preemption block shared by POST /jobs/:id/run and POST /scrape
PreemptNeeded ==
  /\ scrapeSession.isScraping
  /\ scrapeSession.currentJobId # NoId
  /\ scrapeSession.currentJobId \in jobs

PreemptSession ==
  IF PreemptNeeded THEN [scrapeSession EXCEPT !.pauseRequested = TRUE]
  ELSE scrapeSession

PreemptJobs ==
  IF PreemptNeeded
  THEN [jobObj EXCEPT ![scrapeSession.currentJobId].state = "paused"]
  ELSE jobObj

PreemptPending ==
  IF PreemptNeeded /\ saveIssued(jobsCache, scrapeSession.currentJobId)
  THEN pending \cup {scrapeSession.currentJobId}
  ELSE pending

\* POST /jobs/:id/run
RunJob(id) ==
  /\ FreeSlots # {}
  /\ id \in KnownIds
  /\ id \in jobs
  /\ ~(scrapeSession.currentJobId = id /\ scrapeSession.isScraping)
  /\ UNCHANGED <<fileVars, reqVars, startup, profiles, csv, started, jobs, jobsCache, disk, creating, pagesDone>>
  /\ \E hasCookie \in BOOLEAN :
       /\ Request(Cost(~hasCookie))
       /\ runScrapeStart(
            [PreemptSession EXCEPT !.currentJobId = id, !.isScraping = TRUE,
                                   !.isPaused = FALSE, !.pauseRequested = FALSE],
            [PreemptJobs EXCEPT ![id].state = "running"],
            IF saveIssued(jobsCache, id) THEN PreemptPending \cup {id}
            ELSE PreemptPending,
            "run", hasCookie)

\* POST /jobs/:id/stop
StopJob(id) ==
  /\ Request(0)
  /\ id \in KnownIds
  /\ id \in jobs
  /\ IF scrapeSession.currentJobId = id /\ scrapeSession.isScraping
     THEN /\ scrapeSession' = [scrapeSession EXCEPT !.pauseRequested = TRUE]
          /\ jobObj' = [jobObj EXCEPT ![id].state = "pausing"]
     ELSE /\ scrapeSession' = scrapeSession
          /\ jobObj' = [jobObj EXCEPT ![id].state = "paused"]
  /\ pending' = IF saveIssued(jobsCache, id) THEN pending \cup {id} ELSE pending
  /\ UNCHANGED <<fileVars, reqVars, startup, profiles, csv, started, jobs, jobsCache, disk, creating, runners, pagesDone>>

\* ids no job has had yet; timestampString gives a new id per request
UnusedIds == {i \in Ids : jobObj[i] = NoJob /\ disk[i] = NoJob}

\* runSignalHire from `const exists` to its end, with the rows it is about
\* to save and the append option of its caller: an existing file is upgraded,
\* an error of the upgrade being ignored, and the rows are saved
saveRows(uniqueRows, append) ==
  /\ Len(file.rows) + Len(uniqueRows) <= MaxFileRows
  /\ LET exists == file.exists
         effectiveAppend == IF append # "undefined" THEN append
                            ELSE IF exists THEN "true" ELSE "false"
     IN /\ \E upgraded \in {file, upgradeCsvAddEmailOnly(file)} :
             file' = writeProfilesCsv(uniqueRows, upgraded, effectiveAppend)
        /\ saved' = [op |-> IF exists /\ effectiveAppend = "true"
                            THEN "append" ELSE "write",
                     rows |-> uniqueRows, before |-> file]
  /\ UNCHANGED <<navVars, reqVars, started, startup, jobObj, jobs, jobsCache,
                 disk, pending, creating, scrapeSession, runners, budget,
                 profiles, csv, pagesDone, attempted, orch>>

\* runScrape's call of deduplicateCsv(job.filePath), its errors ignored
deduplicate ==
  /\ file' = deduplicateCsvFile(file)
  /\ saved' = [op |-> "dedup", rows |-> <<>>, before |-> file]
  /\ UNCHANGED <<navVars, reqVars, started, startup, jobObj, jobs, jobsCache,
                 disk, pending, creating, scrapeSession, runners, budget,
                 profiles, csv, pagesDone, attempted, orch>>

\* POST /scrape up to `await setJob(job)`: a valid request with a stored
\* cookie, whose list name or second differs from those of every earlier
\* request (createJob is the handler without that restriction), preempts
\* the running job and enters the new job in `jobs`
ScrapeBegin ==
  /\ Request(0)
  /\ UnusedIds # {}
  /\ LET id == CHOOSE i \in UnusedIds : \A k \in UnusedIds : i <= k IN
       /\ scrapeSession' = PreemptSession
       /\ jobObj' = [PreemptJobs EXCEPT ![id] = NewJob]
       /\ pending' = PreemptPending
       /\ jobs' = jobs \cup {id}
       /\ creating' = creating \cup {id}
  /\ UNCHANGED <<fileVars, reqVars, startup, profiles, csv, started, jobsCache, disk, runners, pagesDone>>

\* time passes
Tick ==
  /\ clock < MaxClock
  /\ clock' = clock + 1
  /\ UNCHANGED <<started, startup, jobObj, jobs, jobsCache, disk, pending,
                 creating, scrapeSession, runners, budget, profiles, csv,
                 pagesDone, ids, rejected, fileVars>>

\* POST /scrape up to `await setJob(job)`, with the request body, the cookie
\* file and the clock it reads: the validation, the preemption, and the job
\* made under the id computed from the list name and the time.  A job that
\* has this id already is replaced.
createJob(req) ==
  LET jobId == JobIdOf(req.listName.text, clock)
      known == {i \in Ids : ids[i] = jobId}
      id == IF known # {} THEN CHOOSE i \in known : TRUE
            ELSE CHOOSE i \in UnusedIds : \A k \in UnusedIds : i <= k
  IN
  /\ Request(0)
  /\ IF Rejection(req) # "none"
     THEN /\ rejected' = [n |-> rejected.n + 1, session |-> scrapeSession]
          /\ UNCHANGED <<ids, jobObj, jobs, pending, creating, scrapeSession>>
     ELSE /\ known # {} \/ UnusedIds # {}
          /\ id \notin creating
          /\ scrapeSession' = PreemptSession
          /\ jobObj' = [PreemptJobs EXCEPT ![id] = NewJob]
          /\ pending' = PreemptPending
          /\ jobs' = jobs \cup {id}
          /\ creating' = creating \cup {id}
          /\ ids' = [ids EXCEPT ![id] = jobId]
          /\ UNCHANGED rejected
  /\ UNCHANGED <<started, startup, profiles, csv, jobsCache, disk, runners,
                 pagesDone, clock, fileVars>>

\* POST /scrape up to `await setJob(job)`, the request arriving while
\* loadJobs still reads the job files: the map scrapeRoutes.js took from
\* getJobs() is still the map that is jobsCache, so that `jobs[jobId] = job`
\* enters the job in jobsCache as well
createJobEarly(req) ==
  LET jobId == JobIdOf(req.listName.text, clock)
      known == {i \in Ids : ids[i] = jobId}
      id == IF known # {} THEN CHOOSE i \in known : TRUE
            ELSE CHOOSE i \in UnusedIds : \A k \in UnusedIds : i <= k
  IN
  /\ ~started
  /\ Spend(1)
  /\ IF Rejection(req) # "none"
     THEN /\ rejected' = [n |-> rejected.n + 1, session |-> scrapeSession]
          /\ UNCHANGED <<ids, jobObj, jobs, jobsCache, pending, creating,
                         scrapeSession>>
     ELSE /\ known # {} \/ UnusedIds # {}
          /\ id \notin creating
          /\ scrapeSession' = PreemptSession
          /\ jobObj' = [PreemptJobs EXCEPT ![id] = NewJob]
          /\ pending' = PreemptPending
          /\ jobs' = jobs \cup {id}
          /\ jobsCache' = jobsCache \cup {id}
          /\ creating' = creating \cup {id}
          /\ ids' = [ids EXCEPT ![id] = jobId]
          /\ UNCHANGED rejected
  /\ UNCHANGED <<started, startup, profiles, csv, disk, runners, pagesDone,
                 clock, fileVars>>

\* POST /scrape after `await setJob(job)`: the job is on disk and in
\* jobsCache; it becomes the current job and runScrape is started
ScrapeFinish(id) ==
  /\ id \in creating
  /\ FreeSlots # {}
  /\ creating' = creating \ {id}
  /\ disk' = [disk EXCEPT ![id] = jobObj[id]]
  /\ jobsCache' = jobsCache \cup {id}
  /\ UNCHANGED <<fileVars, reqVars, startup, profiles, csv, started, jobs, pagesDone>>
  /\ \E hasCookie \in BOOLEAN :
       /\ Spend(Cost(~hasCookie))
       /\ runScrapeStart(
            [scrapeSession EXCEPT !.currentJobId = id, !.isScraping = TRUE,
                                  !.isPaused = FALSE, !.pauseRequested = FALSE],
            jobObj, pending, "scrape", hasCookie)

\* DELETE /jobs/:id: refused for the current job while isScraping;
\* deleteJobFile unlinks the file and evicts the cache entry
DeleteJob(id) ==
  /\ Request(0)
  /\ id \in KnownIds
  /\ id \in jobsCache
  /\ ~(scrapeSession.currentJobId = id /\ scrapeSession.isScraping)
  /\ disk' = [disk EXCEPT ![id] = NoJob]
  /\ jobsCache' = jobsCache \ {id}
  /\ UNCHANGED <<fileVars, reqVars, startup, profiles, csv, started, jobObj, jobs, pending, creating, scrapeSession,
                 runners, pagesDone>>

\* ------------------------------------------------- runScrape, the steps
\* the test made at the top of the page loop and before every sub-step
pauseOrPreempted(ss, id) == ss.currentJobId # id \/ ss.pauseRequested

\* the block every such test runs before it closes the browser context
pauseSession(ss) ==
  [ss EXCEPT !.isScraping = FALSE, !.isPaused = ss.pauseRequested,
             !.pauseRequested = FALSE]

pauseJob(obj, id, currentPage) ==
  [obj EXCEPT ![id].pageIndex = currentPage, ![id].state = "paused"]

\* the end of an awaited updateJob: the file is written, the object is
\* (re)entered in jobsCache; nothing happens when saveJob had thrown
Written(r) ==
  LET id == runners[r].jobId IN
  IF runners[r].wr
  THEN /\ disk' = [disk EXCEPT ![id] = jobObj[id]]
       /\ jobsCache' = jobsCache \cup {id}
  ELSE UNCHANGED <<disk, jobsCache>>

\* `await launchStealthBrowser()`; it is outside the try block, so a failed
\* launch rejects runScrape and the .catch of the calling handler runs
launchStealthBrowser(r) ==
  LET id == runners[r].jobId IN
  /\ runners[r].pc = "launch"
  /\ \/ /\ runners' = [runners EXCEPT ![r].pc = "login", ![r].session = "open",
                                      ![r].origin = "none"]
        /\ UNCHANGED <<jobObj, scrapeSession, pending, budget>>
     \/ /\ Spend(1)
        /\ runners' = [runners EXCEPT ![r] = IdleRunner]
        /\ scrapeSession' = FlagsOff(scrapeSession)
        /\ jobObj' = [jobObj EXCEPT ![id].state = "paused"]
        /\ pending' = IF runners[r].origin = "run" /\ saveIssued(jobsCache, id)
                      THEN pending \cup {id} ELSE pending
  /\ UNCHANGED <<fileVars, reqVars, startup, profiles, csv, started, jobs, jobsCache, disk, creating, pagesDone>>

\* ensureContactOutLogin and ensureSignalHireLogin; when one of them is not
\* logged in the job is paused and runScrape returns
ensureLogins(r) ==
  LET id == runners[r].jobId IN
  /\ runners[r].pc = "login"
  /\ \/ /\ runners' = [runners EXCEPT ![r].pc = "licheck"]
        /\ UNCHANGED <<jobObj, scrapeSession, budget>>
     \/ LET obj1 == [jobObj EXCEPT ![id].state = "paused"] IN
        /\ Spend(1)
        /\ scrapeSession' = FlagsOff(scrapeSession)
        /\ jobObj' = updateJob(obj1, jobsCache, id, Progress(obj1[id], "paused"))
        /\ runners' = [runners EXCEPT ![r].pc = "wfinal",
                                      ![r].wr = saveIssued(jobsCache, id)]
  /\ UNCHANGED <<fileVars, reqVars, startup, profiles, csv, started, jobs, jobsCache, disk, pending, creating, pagesDone>>

\* the entry of the page loop: the test at the loop top and the one before
\* SignalHire follow each other without an await
enterIteration(r, ss, obj, rs) ==
  LET id == runners[r].jobId IN
  IF pauseOrPreempted(ss, id)
  THEN /\ scrapeSession' = pauseSession(ss)
       /\ jobObj' = pauseJob(obj, id, rs[r].currentPage)
       /\ runners' = [rs EXCEPT ![r].pc = "pclose_top"]
  ELSE /\ scrapeSession' = ss
       /\ jobObj' = obj
       /\ runners' = [rs EXCEPT ![r].pc = "sh"]

\* the outer catch of runScrape, up to its context.close(); s is what has
\* become of the browser context
outerCatch(r, s) ==
  LET id == runners[r].jobId IN
  /\ scrapeSession' = FlagsOff(scrapeSession)
  /\ jobObj' = [jobObj EXCEPT ![id].state = "paused"]
  /\ runners' = [runners EXCEPT ![r].pc = "catchclose", ![r].session = s]

\* addLinkedInCookies and checkLinkedInByUrl(context, startUrl), then the
\* reset of the totals and the first test of the page loop
checkLinkedIn(r) ==
  LET id == runners[r].jobId IN
  /\ runners[r].pc = "licheck"
  /\ \/ \* addLinkedInCookies throws
        /\ Spend(1)
        /\ outerCatch(r, "open")
     \/ \* the cookie has expired
        /\ Spend(1)
        /\ scrapeSession' = FlagsOff(scrapeSession)
        /\ jobObj' = [jobObj EXCEPT ![id].state = "paused",
                                    ![id].stateReason = "cookie_expired"]
        /\ runners' = [runners EXCEPT ![r].pc = "expclose"]
     \/ \* logged in
        /\ UNCHANGED budget
        /\ enterIteration(r,
             [scrapeSession EXCEPT !.isScraping = TRUE, !.isPaused = FALSE],
             IF jobObj[id].pageIndex = 1
             THEN [jobObj EXCEPT ![id].totalRows = 0, ![id].totalContacts = 0]
             ELSE jobObj,
             [runners EXCEPT ![r].currentPage = jobObj[id].pageIndex])
  /\ UNCHANGED <<fileVars, reqVars, startup, profiles, csv, started, jobs, jobsCache, disk, pending, creating, pagesDone>>

\* a test between two sub-steps: pause, or go on with the sub-step `next`
checkThenWith(r, rs, obj, next) ==
  LET id == runners[r].jobId IN
  IF pauseOrPreempted(scrapeSession, id)
  THEN /\ scrapeSession' = pauseSession(scrapeSession)
       /\ jobObj' = pauseJob(obj, id, runners[r].currentPage)
       /\ runners' = [rs EXCEPT ![r].pc = "pclose_in"]
  ELSE /\ scrapeSession' = scrapeSession
       /\ jobObj' = obj
       /\ runners' = [rs EXCEPT ![r].pc = next]

checkThen(r, obj, next) == checkThenWith(r, runners, obj, next)

\* runSignalHire whose caller goes on to the ContactOut block also when no
\* row is returned
runSignalHireThenContactOut(r) ==
  LET id == runners[r].jobId
      url == runners[r].url
  IN
  /\ runners[r].pc = "sh"
  /\ \E n \in {0, profiles} :
       /\ Spend(Cost(n # profiles))
       /\ IF n > 0 /\ csv[id][url] = 0
          THEN /\ runners' = [runners EXCEPT ![r].pc = "shsave"]
               /\ UNCHANGED <<jobObj, scrapeSession>>
          ELSE checkThen(r, jobObj, "co")
  /\ UNCHANGED <<fileVars, reqVars, startup, profiles, csv, started, jobs, jobsCache, disk, pending,
                 creating, pagesDone>>

\* runSignalHire up to the rows it will save: the rows of the page are
\* extracted (none when the extraction throws), the URLs of the output file are read and the rows whose
\* URL the file has are dropped; the file is written in a later step
runSignalHire(r) ==
  LET id == runners[r].jobId
      url == runners[r].url
  IN
  /\ runners[r].pc = "sh"
  /\ \E n \in {0, profiles} :
       /\ Spend(Cost(n # profiles))
       /\ IF n > 0 /\ csv[id][url] = 0
          THEN /\ runners' = [runners EXCEPT ![r].pc = "shsave"]
               /\ UNCHANGED <<jobObj, scrapeSession>>
          ELSE checkThen(r, jobObj, "scroll")
  /\ UNCHANGED <<fileVars, reqVars, startup, profiles, csv, started, jobs, jobsCache, disk, pending,
                 creating, pagesDone>>

\* saveProfilesCsv appends the row runSignalHire kept; runScrape adds it to
\* the job's total
saveProfilesCsv(r) ==
  LET id == runners[r].jobId
      url == runners[r].url
  IN
  /\ runners[r].pc = "shsave"
  /\ csv' = [csv EXCEPT ![id][url] = @ + 1]
  /\ checkThenWith(r, [runners EXCEPT ![r].shRows = 1],
                   [jobObj EXCEPT ![id].totalRows = @ + 1], "co")
  /\ UNCHANGED <<fileVars, reqVars, startup, profiles, started, budget, jobs, jobsCache, disk, pending, creating,
                 pagesDone>>

\* deduplicateCsv keeps the first row of every URL
deduplicateCsv(rows) == [u \in Urls |-> IF rows[u] > 1 THEN 1 ELSE rows[u]]

\* the calls of the ContactOut block of a page iteration, in the order of
\* the code; a call that throws is the last one made
ContactOutCalls ==
  <<"runContactOut", "mergeContactDomainsByNamePriority", "deduplicateCsv">>

\* runContactOut without the try block around it: what it throws reaches the
\* catch of the page iteration, which ends the loop
runContactOutUncaught(r) ==
  LET id == runners[r].jobId IN
  /\ runners[r].pc = "co"
  /\ attempted' = [attempted EXCEPT ![id] = @ \cup {runners[r].url}]
  /\ \/ /\ UNCHANGED budget
        /\ csv' = [csv EXCEPT ![id] = deduplicateCsv(@)]
        /\ checkThenWith(r, [runners EXCEPT ![r].calls = ContactOutCalls],
                         [jobObj EXCEPT ![id].totalContacts = @ + profiles],
                         "scroll")
     \/ /\ Spend(1)
        /\ UNCHANGED csv
        /\ jobObj' = [jobObj EXCEPT ![id].state = "completed"]
        /\ scrapeSession' = FlagsOff(scrapeSession)
        /\ runners' = [runners EXCEPT ![r].pc = "cclose",
                                      ![r].calls = <<"runContactOut">>]
  /\ UNCHANGED <<csvVars, navVars, orch, reqVars, startup, profiles, started, jobs, jobsCache, disk, pending, creating, pagesDone>>

\* runContactOut returns the profiles of the page, which are merged into the
\* file, and the file is deduplicated; or runContactOut or the merge throws,
\* and the catch skips what follows.  shRows is the number of rows
\* runSignalHire returned in this iteration, calls the calls made so far.
runContactOut(r) ==
  LET id == runners[r].jobId IN
  /\ runners[r].pc = "co"
  /\ attempted' = [attempted EXCEPT ![id] = @ \cup {runners[r].url}]
  /\ \/ /\ UNCHANGED budget
        /\ csv' = [csv EXCEPT ![id] = deduplicateCsv(@)]
        /\ checkThenWith(r, [runners EXCEPT ![r].calls = ContactOutCalls],
                         [jobObj EXCEPT ![id].totalContacts = @ + profiles],
                         "scroll")
     \/ /\ Spend(1)
        /\ UNCHANGED csv
        /\ \/ \* runContactOut throws
              checkThenWith(r, [runners EXCEPT ![r].calls = <<"runContactOut">>],
                            jobObj, "scroll")
           \/ \* the merge throws, the profiles have been counted
              checkThenWith(r, [runners EXCEPT ![r].calls =
                                  <<"runContactOut",
                                    "mergeContactDomainsByNamePriority">>],
                            [jobObj EXCEPT ![id].totalContacts = @ + profiles],
                            "scroll")
  /\ UNCHANGED <<csvVars, navVars, orch, reqVars, startup, profiles, started, jobs, jobsCache, disk, pending, creating, pagesDone>>

\* salesDashBoardScroller and the random delay
salesDashBoardScroller(r) ==
  /\ runners[r].pc = "scroll"
  /\ checkThen(r, jobObj, "nav")
  /\ UNCHANGED <<fileVars, reqVars, startup, profiles, csv, started, budget, jobs, jobsCache, disk, pending, creating,
                 pagesDone>>

\* what clickNextPage can answer on the displayed page
NavOutcomes(url) ==
  IF url < MaxPage THEN {"moved", "no-more", "failed"} ELSE {"no-more", "failed"}

\* clickNextPage returns; pageIndex and currentUrl are set on the job and
\* the updateJob of every iteration is called
clickNextPage(r) ==
  LET id == runners[r].jobId IN
  /\ runners[r].pc = "nav"
  /\ \E navStatus \in NavOutcomes(runners[r].url) :
       LET currentPage == IF navStatus = "moved" THEN runners[r].currentPage + 1
                          ELSE runners[r].currentPage
           url == IF navStatus = "moved" THEN runners[r].url + 1
                  ELSE runners[r].url
       IN
       /\ currentPage <= MaxPage
       /\ Spend(Cost(navStatus = "failed"))
       /\ jobObj' = [jobObj EXCEPT ![id].pageIndex = currentPage,
                                   ![id].currentUrl = url]
       /\ runners' = [runners EXCEPT ![r].pc = "persist",
                                     ![r].currentPage = currentPage,
                                     ![r].url = url,
                                     ![r].navStatus = navStatus,
                                     ![r].shRows = 0,
                                     ![r].calls = <<>>,
                                     ![r].wr = saveIssued(jobsCache, id)]
       /\ pagesDone' = IF navStatus = "moved" /\ runners[r].url > pagesDone[id]
                       THEN [pagesDone EXCEPT ![id] = runners[r].url]
                       ELSE pagesDone
  /\ UNCHANGED <<fileVars, reqVars, startup, profiles, csv, started, jobs, jobsCache, disk, pending, creating,
                 scrapeSession>>

\* the write of the iteration is done: pause on 'failed', go to the next
\* page on 'moved', leave the loop and complete on 'no-more'
afterIteration(r) ==
  LET id == runners[r].jobId
      rs == [runners EXCEPT ![r].navStatus = "none"]
  IN
  /\ runners[r].pc = "persist"
  /\ Written(r)
  /\ CASE runners[r].navStatus = "failed" ->
            /\ jobObj' = [jobObj EXCEPT ![id].state = "paused"]
            /\ scrapeSession' = [scrapeSession EXCEPT !.isScraping = FALSE,
                                   !.isPaused = TRUE, !.pauseRequested = FALSE]
            /\ runners' = [rs EXCEPT ![r].pc = "pclose_in"]
       [] runners[r].navStatus = "moved" ->
            enterIteration(r, scrapeSession, jobObj, rs)
       [] OTHER ->
            /\ jobObj' = [jobObj EXCEPT ![id].state = "completed"]
            /\ scrapeSession' = FlagsOff(scrapeSession)
            /\ runners' = [rs EXCEPT ![r].pc = "cclose"]
  /\ UNCHANGED <<fileVars, reqVars, startup, profiles, csv, started, budget, jobs, pending, creating, pagesDone>>

\* context.close() resolves, then updateJob is called with state st
closedThenUpdate(r, st) ==
  LET id == runners[r].jobId IN
  /\ jobObj' = updateJob(jobObj, jobsCache, id, Progress(jobObj[id], st))
  /\ runners' = [runners EXCEPT ![r].pc = "wfinal", ![r].session = "closed",
                                ![r].wr = saveIssued(jobsCache, id)]
  /\ scrapeSession' = scrapeSession

\* `await context.close()` of the test at the loop top (outside the inner
\* try); when it rejects the outer catch runs
closeAtLoopTop(r) ==
  /\ runners[r].pc = "pclose_top"
  /\ \/ /\ UNCHANGED budget
        /\ closedThenUpdate(r, "paused")
     \/ /\ Spend(1)
        /\ outerCatch(r, "closed")
  /\ UNCHANGED <<fileVars, reqVars, startup, profiles, csv, started, jobs, jobsCache, disk, pending, creating, pagesDone>>

\* `await context.close()` of a test inside the inner try, or of the
\* 'failed' branch; when it rejects, the catch of the page iteration sets
\* continueScrape = false and the code after the loop runs
closeInIteration(r) ==
  LET id == runners[r].jobId IN
  /\ runners[r].pc = "pclose_in"
  /\ \/ /\ UNCHANGED budget
        /\ closedThenUpdate(r, "paused")
     \/ /\ Spend(1)
        /\ jobObj' = [jobObj EXCEPT ![id].state = "completed"]
        /\ scrapeSession' = FlagsOff(scrapeSession)
        /\ runners' = [runners EXCEPT ![r].pc = "cclose",
                                      ![r].session = "closed"]
  /\ UNCHANGED <<fileVars, reqVars, startup, profiles, csv, started, jobs, jobsCache, disk, pending, creating, pagesDone>>

\* `await context.close()` after the loop; when it rejects the outer catch
\* runs
closeCompleted(r) ==
  /\ runners[r].pc = "cclose"
  /\ \/ /\ UNCHANGED budget
        /\ closedThenUpdate(r, "completed")
     \/ /\ Spend(1)
        /\ outerCatch(r, "closed")
  /\ UNCHANGED <<fileVars, reqVars, startup, profiles, csv, started, jobs, jobsCache, disk, pending, creating, pagesDone>>

\* `try { await context.close() } catch {}` of the outer catch, then its
\* updateJob
closeInCatch(r) ==
  /\ runners[r].pc = "catchclose"
  /\ closedThenUpdate(r, "paused")
  /\ UNCHANGED <<fileVars, reqVars, startup, profiles, csv, started, budget, jobs, jobsCache, disk, pending, creating,
                 pagesDone>>

\* `try { await context.close() } catch {}` of the expired-cookie branch,
\* then its updateJob
closeExpired(r) ==
  LET id == runners[r].jobId IN
  /\ runners[r].pc = "expclose"
  /\ jobObj' = updateJob(jobObj, jobsCache, id,
                 [stateReason |-> "cookie_expired"] @@
                   Progress(jobObj[id], "paused"))
  /\ runners' = [runners EXCEPT ![r].pc = "wfinal", ![r].session = "closed",
                                ![r].wr = saveIssued(jobsCache, id)]
  /\ UNCHANGED <<fileVars, reqVars, startup, profiles, csv, started, budget, jobs, jobsCache, disk, pending, creating,
                 scrapeSession, pagesDone>>

\* the last awaited updateJob is done and runScrape returns
runScrapeReturn(r) ==
  /\ runners[r].pc = "wfinal"
  /\ Written(r)
  /\ runners' = [runners EXCEPT ![r] = IdleRunner]
  /\ UNCHANGED <<fileVars, reqVars, startup, profiles, csv, started, budget, jobObj, jobs, pending, creating,
                 scrapeSession, pagesDone>>

\* ------------------------------------------------------- specification
Next ==
  \/ readJobFiles
  \/ loadJobs
  \/ cleanupOldJobs
  \/ \E id \in Ids : saveJob(id)
  \/ Stop
  \/ Resume
  \/ \E id \in Ids : RunJob(id)
  \/ \E id \in Ids : StopJob(id)
  \/ ScrapeBegin
  \/ \E id \in Ids : ScrapeFinish(id)
  \/ \E id \in Ids : DeleteJob(id)
  \/ \E r \in Runners : launchStealthBrowser(r)
  \/ \E r \in Runners : ensureLogins(r)
  \/ \E r \in Runners : checkLinkedIn(r)
  \/ \E r \in Runners : runSignalHire(r)
  \/ \E r \in Runners : saveProfilesCsv(r)
  \/ \E r \in Runners : runContactOut(r)
  \/ \E r \in Runners : salesDashBoardScroller(r)
  \/ \E r \in Runners : clickNextPage(r)
  \/ \E r \in Runners : afterIteration(r)
  \/ \E r \in Runners : closeAtLoopTop(r)
  \/ \E r \in Runners : closeInIteration(r)
  \/ \E r \in Runners : closeCompleted(r)
  \/ \E r \in Runners : closeInCatch(r)
  \/ \E r \in Runners : closeExpired(r)
  \/ \E r \in Runners : runScrapeReturn(r)

Spec == Init /\ [][Next]_vars

SpecOneJob == InitOneJob /\ [][Next]_vars

SpecSweep == InitSweep /\ [][Next]_vars

\* POST /scrape with its inputs, between the startup sequence and the first
\* step of the runScrape invocations it starts
NextCreate ==
  \/ readJobFiles
  \/ loadJobs
  \/ cleanupOldJobs
  \/ Tick
  \/ \E req \in Requests : createJob(req)
  \/ \E id \in Ids : ScrapeFinish(id)
  \/ \E id \in Ids : saveJob(id)
  \/ Stop

\* no job file, and one event less
InitCreate == Start([i \in Ids |-> NoJob], {}, MaxEvents - 1)

SpecCreate == InitCreate /\ [][NextCreate]_vars

\* POST /scrape during and after the startup
NextEarly ==
  \/ readJobFiles
  \/ loadJobs
  \/ cleanupOldJobs
  \/ Tick
  \/ \E req \in Requests : createJobEarly(req)
  \/ \E req \in Requests : createJob(req)
  \/ \E id \in Ids : ScrapeFinish(id)
  \/ \E id \in Ids : saveJob(id)
  \/ Stop

SpecEarly == InitCreate /\ [][NextEarly]_vars

\* the saves of rows to one CSV file, which the process found or creates
NextCsv ==
  \/ \E rows \in Batches, append \in {"undefined", "false"} :
       saveRows(rows, append)
  \/ deduplicate

InitCsv ==
  /\ StartJobs([i \in Ids |-> NoJob], {}, 0)
  /\ profiles = 0
  /\ file \in FoundFiles
  /\ saved = NotSaved
  /\ view = NoView
  /\ coming = NoView
  /\ nav = IdleNav

SpecCsv == InitCsv /\ [][NextCsv]_vars

\* what a call of clickNextPage taken by itself leaves alone
restVars == <<csvVars, reqVars, started, startup, jobObj, jobs, jobsCache, disk,
              pending, creating, scrapeSession, runners, budget, profiles, csv,
              pagesDone, attempted, orch>>

\* the calls of clickNextPage on a result page
NextNav ==
  \/ (navStart /\ UNCHANGED restVars)
  \/ (navClick /\ UNCHANGED restVars)
  \/ (navPoll /\ UNCHANGED restVars)
  \/ (navReload /\ UNCHANGED restVars)
  \/ (navReloaded /\ UNCHANGED restVars)
  \/ (navJump /\ UNCHANGED restVars)
  \/ (navReturn /\ UNCHANGED restVars)
  \/ (Render /\ UNCHANGED restVars)

InitNav ==
  /\ StartJobs([i \in Ids |-> NoJob], {}, 0)
  /\ profiles = 0
  /\ file = NoFile
  /\ saved = NotSaved
  /\ view \in Views
  /\ coming = NoView
  /\ nav = IdleNav

SpecNav == InitNav /\ [][NextNav]_vars

\* a call of clickNextPage goes on: its every await ends
SpecNavFair == SpecNav /\ WF_vars(navStep /\ UNCHANGED restVars)

\* ------------------------------------- runContactOut, ensureSidebarReady
\* the options a call takes when its caller gives none, as runScrape's do
DEFAULTS == [retries |-> 3]

Orchestrators == {"runContactOut", "ensureSidebarReadyWithRetries"}

\* what the body of an attempt throws: the lead list did not appear, the
\* toggle was not clickable, page.reload failed, the toggle was not clickable
\* after the re-login, the extension was still signed out, the results did
\* not appear, no profile was collected
OrchErrors ==
  {"list", "toggle", "reload", "toggle2", "login", "results", "noprofiles"}

\* a throw inside the try block: the catch block is next
Throws(e) ==
  orch' = [orch EXCEPT !.pc = "catch", !.lastError = e,
                       !.failed = @ + 1]

\* runScrape calls an orchestrator: `for (let attempt = 1; ...`
orchCall(fn) ==
  /\ orch.pc \in {"idle", "returned", "thrown"}
  /\ orch' = [IdleOrch EXCEPT !.fn = fn, !.pc = "test",
                              !.retries = DEFAULTS.retries, !.attempt = 1]

\* `attempt <= retries`: the body is entered, or the loop is left; after
\* its loop runContactOut throws and ensureSidebarReadyWithRetries ends
orchTest ==
  /\ orch.pc = "test"
  /\ orch' = IF orch.attempt <= orch.retries
             THEN [orch EXCEPT !.pc = "try", !.entered = @ + 1,
                               !.relogins = 0]
             ELSE IF orch.fn = "runContactOut"
             THEN [orch EXCEPT !.pc = "thrown"]
             ELSE [orch EXCEPT !.pc = "returned"]

\* the body up to the login check: the wait for the lead list, SignalHire's
\* test of its tracker (visible: return), the click of the toggle, the
\* check of the login state
orchOpen ==
  /\ orch.pc = "try"
  /\ \/ \E e \in {"list", "toggle"} : Throws(e)
     \/ /\ orch.fn = "ensureSidebarReadyWithRetries"
        /\ orch' = [orch EXCEPT !.pc = "returned"]
     \/ orch' = [orch EXCEPT !.pc = "wait"]
     \/ orch' = [orch EXCEPT !.pc = "relogin", !.relogins = @ + 1]

\* the extension is signed out: the two logins (their errors logged), the
\* reload, the wait for the list, the second click, the second check
orchRelogin ==
  /\ orch.pc = "relogin"
  /\ \/ \E e \in {"reload", "list", "toggle2", "login"} : Throws(e)
     \/ orch' = [orch EXCEPT !.pc = "wait"]

\* the wait for the results; runContactOut then collects the profiles and
\* throws when there is none
orchResults ==
  /\ orch.pc = "wait"
  /\ \/ Throws("results")
     \/ /\ orch.fn = "ensureSidebarReadyWithRetries"
        /\ orch' = [orch EXCEPT !.pc = "returned"]
     \/ /\ orch.fn = "runContactOut"
        /\ \E n \in 0..MaxProfiles :
             IF n = 0 THEN Throws("noprofiles")
             ELSE orch' = [orch EXCEPT !.pc = "returned", !.profiles = n]

\* a catch block that goes to the next attempt without a reload
orchCatchNoReload ==
  /\ orch.pc = "catch"
  /\ orch' = IF orch.fn = "ensureSidebarReadyWithRetries"
                /\ orch.attempt = orch.retries
             THEN [orch EXCEPT !.pc = "thrown"]
             ELSE [orch EXCEPT !.pc = "test", !.attempt = @ + 1]

\* the catch block of runContactOut: safeReload if `attempt < retries`,
\* then `attempt++`; and of ensureSidebarReadyWithRetries: the error is
\* thrown again if `attempt === maxRetries`, else safeReload
orchCatch ==
  /\ orch.pc = "catch"
  /\ orch' = IF orch.fn = "runContactOut"
             THEN IF orch.attempt < orch.retries
                  THEN [orch EXCEPT !.pc = "reload"]
                  ELSE [orch EXCEPT !.pc = "test", !.attempt = @ + 1]
             ELSE IF orch.attempt = orch.retries
                  THEN [orch EXCEPT !.pc = "thrown"]
                  ELSE [orch EXCEPT !.pc = "reload"]

\* safeReload, whose errors are ignored, and `attempt++`
safeReload ==
  /\ orch.pc = "reload"
  /\ orch' = [orch EXCEPT !.pc = "test", !.reloads = @ + 1,
                          !.attempt = @ + 1]

\* what a call of an orchestrator taken by itself leaves alone
orchRest == <<csvVars, navVars, reqVars, started, startup, jobObj, jobs,
              jobsCache, disk, pending, creating, scrapeSession, runners,
              budget, profiles, csv, pagesDone, attempted>>

\* the calls of the two orchestrators on a result page
NextOrch ==
  \/ \E fn \in Orchestrators : (orchCall(fn) /\ UNCHANGED orchRest)
  \/ (orchTest /\ UNCHANGED orchRest)
  \/ (orchOpen /\ UNCHANGED orchRest)
  \/ (orchRelogin /\ UNCHANGED orchRest)
  \/ (orchResults /\ UNCHANGED orchRest)
  \/ (orchCatch /\ UNCHANGED orchRest)
  \/ (safeReload /\ UNCHANGED orchRest)

InitOrch ==
  /\ Start([i \in Ids |-> NoJob], {}, 0)
  /\ profiles = 0

SpecOrch == InitOrch /\ [][NextOrch]_vars

TypeOK ==
  /\ jobs \subseteq Ids
  /\ jobsCache \subseteq Ids
  /\ scrapeSession.currentJobId \in Ids \cup {NoId}


\* ----------------------------------------------------------------- claims
\* the positions of runScrape inside the page loop
LoopPcs == {"sh", "shsave", "co", "scroll", "nav", "persist"}

\* the runScrape invocations that are inside the page loop of job id
ActiveLoops(id) == {r \in Runners : runners[r].jobId = id /\ runners[r].pc \in LoopPcs}

\* C1: at most one of the jobs GET /jobs lists has state 'running'
C1_SingleActiveJob ==
  Cardinality({id \in jobsCache : jobObj[id].state = "running"}) <= 1

\* C2: a job becomes 'completed' only in a step of a runScrape of that job
\* whose last clickNextPage answered 'no-more'
C2_CompletedOnlyOnNoMore ==
  [][\A id \in Ids :
       (jobObj'[id].state = "completed" /\ jobObj[id].state # "completed")
         => \E r \in Runners : /\ runners[r].jobId = id
                               /\ runners[r].navStatus = "no-more"]_vars

\* C3: an accepted pause request is not lost: while the current job is
\* 'pausing' and a runScrape of it is inside the page loop, pauseRequested
\* is still set
C3_PauseNotLost ==
  \A id \in Ids :
    (/\ jobObj[id].state = "pausing"
     /\ scrapeSession.currentJobId = id
     /\ ActiveLoops(id) # {})
      => scrapeSession.pauseRequested

C5_MonotonicPageIndex ==
  [][\A id \in Ids :
       /\ (disk[id] # NoJob /\ disk'[id] # NoJob)
            => disk'[id].pageIndex \in
                 {disk[id].pageIndex, disk[id].pageIndex + 1}
       /\ (disk[id].state # "completed" /\ disk'[id].state = "completed")
            => disk'[id].pageIndex = pagesDone'[id] + 1]_vars

\* C6: once loadJobs has completed, every job GET /jobs lists is in the
\* map the run and stop handlers look the id up in
C6_ListedJobsOperable ==
  started => jobsCache \subseteq jobs

\* C7: no job has two runScrape invocations inside the page loop
C7_SingleRunnerPerJob ==
  \A id \in Ids : Cardinality(ActiveLoops(id)) <= 1

\* C8: no job file is deleted while the job is 'running' or a runScrape of
\* the job is inside the page loop
C8_NoDeleteWhileRunning ==
  [][\A id \in Ids :
       (disk[id] # NoJob /\ disk'[id] = NoJob)
         => jobObj[id].state # "running" /\ ActiveLoops(id) = {}]_vars

\* C9: a runScrape that launched a browser context has closed it when it
\* returns
C9_SessionReleased ==
  [][\A r \in Runners :
       (runners[r].pc # "idle" /\ runners'[r].pc = "idle")
         => runners[r].session # "open"]_vars

\* C10: when a handler makes another job the current one while the current
\* job is scraping and has been set to 'paused', the file of the old job
\* says 'paused' by then
C10_PausedWrittenBeforeSwitch ==
  [][(/\ PreemptNeeded
      /\ scrapeSession'.currentJobId # scrapeSession.currentJobId
      /\ jobObj'[scrapeSession.currentJobId].state = "paused")
       => disk'[scrapeSession.currentJobId].state = "paused"]_vars


\* C11: at most one browser context launched by runScrape is open
C11_SingleSession ==
  Cardinality({r \in Runners : runners[r].session = "open"}) <= 1

\* C12: a run that continues a job starts its first page with totals not
\* less than the totals in the job's file
C12_TotalsKept ==
  [][\A r \in Runners :
       (runners[r].pc = "licheck" /\ runners'[r].pc = "sh")
         => LET id == runners[r].jobId IN
            /\ jobObj'[id].totalRows >= disk[id].totalRows
            /\ jobObj'[id].totalContacts >= disk[id].totalContacts]_vars


\* C13: a pause taken at the loop top after page K's iteration ended with
\* 'moved' leaves the job paused with pageIndex K and the URL of page K
C13_PauseCursor ==
  [][\A r \in Runners :
       (/\ runners[r].pc = "persist"
        /\ runners[r].navStatus = "moved"
        /\ runners'[r].pc = "pclose_top")
         => LET id == runners[r].jobId
                K == runners[r].url - 1
            IN /\ jobObj'[id].state = "paused"
               /\ jobObj'[id].pageIndex = K
               /\ jobObj'[id].currentUrl = K]_vars


\* C14: a runScrape that ends on a precondition failure (no cookie file,
\* third-party login failure, expired cookie) leaves the job 'paused' with a
\* stateReason
C14_PreconditionReason ==
  [][\A r \in Runners :
       (runners[r].pc \in {"idle", "login", "expclose"} /\ runners'[r].pc = "wfinal")
         => LET id == runners'[r].jobId IN
            /\ jobObj'[id].state = "paused"
            /\ jobObj'[id].stateReason # "none"]_vars

\* C15: after clickNextPage answered 'failed' the job is 'paused' with a
\* stateReason that names the navigation failure
C15_NavigationReason ==
  [][\A r \in Runners :
       (runners[r].pc = "persist" /\ runners[r].navStatus = "failed"
          /\ runners'[r].pc # "persist")
         => LET id == runners[r].jobId IN
            /\ jobObj'[id].state = "paused"
            /\ jobObj'[id].stateReason \notin {"none", "cookie_expired"}]_vars

\* C16: whenever a page iteration of a job has completed, the job's output
\* file has no two rows with the same profile URL
C16_NoDuplicateRows ==
  \A r \in Runners :
    runners[r].pc = "persist" =>
      \A u \in Urls : csv[runners[r].jobId][u] <= 1

\* no job store operation, request handler or runScrape is in progress
Quiescent ==
  /\ started
  /\ startup.swept
  /\ pending = {}
  /\ creating = {}
  /\ \A r \in Runners : runners[r].pc = "idle"

\* C17: whenever nothing is in progress, jobsCache holds exactly the ids
\* that have a job file, and every cached job equals its file
C17_CacheMatchesDisk ==
  Quiescent =>
    /\ jobsCache = {i \in Ids : disk[i] # NoJob}
    /\ \A i \in jobsCache : jobObj[i] = disk[i]

\* C18: POST /scrape never gives a new job the id of a job it made before
C18_UniqueJobIds ==
  [][\A req \in Requests :
       (createJob(req) /\ Rejection(req) = "none")
         => \A i \in Ids : ids[i] # JobIdOf(req.listName.text, clock)]_vars

\* a request with an empty or non-string url or list name, a URL that is no
\* search-results URL, or no stored cookie
Malformed(req) ==
  \/ req.url.type # "string"
  \/ req.url.text = <<>>
  \/ req.listName.type # "string"
  \/ req.listName.text = <<>>
  \/ ~SearchResultsShape(req.url.text)
  \/ ~req.cookie

\* C19: POST /scrape rejects every such request, and the rejection leaves
\* the job records, the job files and the session flags as they are
C19_RejectedChangesNothing ==
  [][\A req \in Requests :
       (Malformed(req) /\ createJob(req))
         => /\ rejected'.n = rejected.n + 1
            /\ UNCHANGED <<jobObj, jobs, jobsCache, disk, pending, creating,
                           scrapeSession, runners, ids>>]_vars

\* a request has been rejected while a job was the running one
C19_Witness ==
  /\ rejected.n > 0
  /\ rejected.session.isScraping
  /\ rejected.session.currentJobId # NoId
  /\ rejected.session = scrapeSession

\* C20: appending rows to an existing CSV file leaves the header line of the
\* file as it was, and the lines the file had, with their number of columns
\* and the order of their columns
C20_SchemaStable ==
  (saved.op = "append" /\ saved.rows # <<>>) =>
    /\ file.header = saved.before.header
    /\ SubSeq(file.rows, 1, Len(saved.before.rows)) = saved.before.rows


\* C21: every line appended to an existing file has the columns of the
\* header the file has, in the header's order: as many fields as the header
\* has columns, a field the row lacks being written as the empty value
C21_AppendUsesHeaderSchema ==
  (saved.op = "append" /\ saved.rows # <<>>) =>
    \A j \in 1..Len(saved.rows) :
      LET line == file.rows[Len(file.rows) - Len(saved.rows) + j]
          r == saved.rows[j]
          key(h) == (CHOOSE c \in KnownColumns : c.header = h).key
      IN /\ Len(line) = Len(file.header)
         /\ \A i \in 1..Len(file.header) :
              line[i] = Field(key(file.header[i]),
                              IF key(file.header[i]) \in r.keys THEN r.id ELSE 0)

AliasColumn(header) ==
  LET names(a) == { i \in 1..Len(header) :
                      toLowerCase(header[i]) = toLowerCase(keyAliases[a]) }
  IN IF \A a \in 1..Len(keyAliases) : names(a) = {} THEN 0
     ELSE LET a == CHOOSE a \in 1..Len(keyAliases) :
                     names(a) # {} /\ \A b \in 1..(a - 1) : names(b) = {}
          IN CHOOSE i \in names(a) : \A j \in names(a) : i <= j

\* the rows of file f the claim keeps: those with an empty key and the first
\* of every other key
FirstOccurrences(f) ==
  LET col == AliasColumn(f.header)
      key(i) == IF col <= Len(f.rows[i]) THEN normalize(f.rows[i][col])
                ELSE Empty
  IN { i \in 1..Len(f.rows) :
         key(i) = Empty \/ \A j \in 1..(i - 1) : key(j) # key(i) }

\* C23: deduplicateCsv leaves a file that is missing, has no rows or has no
\* column named by an alias as it is; of any other file it keeps the header
\* and, in their order, the rows with an empty key and the first row of
\* every other key
C23_KeepsFirstOccurrences ==
  saved.op = "dedup" =>
    LET f == saved.before
        kept == FirstOccurrences(f)
        place(i) == Cardinality({ j \in kept : j <= i })
        fields(row) == [i \in 1..Len(f.header) |->
                          IF i <= Len(row) THEN row[i] ELSE Empty]
    IN IF ~f.exists \/ f.rows = <<>> \/ AliasColumn(f.header) = 0
       THEN file = f
       ELSE /\ file.header = f.header
            /\ Len(file.rows) = Cardinality(kept)
            /\ \A i \in kept : file.rows[place(i)] = fields(f.rows[i])

\* C24: a call of clickNextPage that finds the banner, a disabled Next
\* button, or neither a Next button nor a numbered button of the next page,
\* answers 'no-more' and clicks no pagination control
C24_ExhaustionBeforeClick ==
  (\/ nav.atStart.banner
   \/ nav.atStart.next = "disabled"
   \/ nav.atStart.next = "absent" /\ ~nav.atStart.numbered) =>
    /\ nav.clicks = 0
    /\ nav.pc = "done" => nav.result = "no-more"

\* C25: a call of clickNextPage ends with one of the three answers, after
\* at most MAX_ATTEMPTS clicks of the attempts and the click of the one reload
\* rescue, one reload and one jump to a URL; it answers 'failed' if no list
\* other than the first and no sign of the last page was shown
C25_BoundedAdvancer ==
  /\ [](/\ nav.clicks <= MAX_ATTEMPTS + 1
        /\ nav.reloads <= 1
        /\ nav.jumps <= 1
        /\ nav.clicks > MAX_ATTEMPTS => nav.reloads = 1
        /\ nav.pc = "done" =>
             /\ nav.result \in {"moved", "no-more", "failed"}
             /\ (~nav.other /\ ~nav.signal) => nav.result = "failed")
  /\ (nav.pc # "idle") ~> (nav.pc = "done")

\* a call has used every attempt and both rescues and answers 'failed'
C25_Witness ==
  /\ nav.pc = "done" /\ nav.result = "failed"
  /\ nav.clicks = MAX_ATTEMPTS + 1 /\ nav.reloads = 1 /\ nav.jumps = 1
  /\ ~nav.other /\ ~nav.signal

\* C26: updateJob called for an id that has no cached record makes a record
\* of that id and writes it: a runScrape that has called its last updateJob
\* has a write of its job to wait for
C26_UpdateCreatesRecord ==
  \A r \in Runners : runners[r].pc = "wfinal" => runners[r].wr

\* C27: a step that adds an entry to the collection scrapeRoutes.js got
\* from getJobs() leaves the cache of the job store as it was: getJob and a
\* later getJobs answer as before
C27_GetJobsSnapshot ==
  [][jobs' # jobs => jobsCache' = jobsCache]_vars

\* the runScrape invocation r starts one of the sub-steps runSignalHire,
\* runContactOut or clickNextPage in this step
StartsSubStep(r) ==
  /\ runners'[r].pc \in {"sh", "co", "nav"}
  /\ runners'[r].pc # runners[r].pc

\* a pause has been requested for job id as the current job and has not been
\* answered, or the job is not the current one
HaltAsked(id) ==
  \/ scrapeSession.currentJobId # id
  \/ scrapeSession.currentJobId = id /\ jobObj[id].state = "pausing"

\* C28: once a pause has been requested for the current job, or the job is
\* no longer the current one, its runScrape starts none of runSignalHire,
\* runContactOut and clickNextPage, and when it leaves the page loop it does
\* so by a pause block that sets the job 'paused'
C28_NoNewSubStep ==
  [][\A r \in Runners :
       LET id == runners[r].jobId IN
       (runners[r].pc \in LoopPcs \cup {"licheck"} /\ HaltAsked(id)) =>
          /\ ~StartsSubStep(r)
          /\ (runners[r].pc \in LoopPcs /\ runners'[r].pc \notin LoopPcs) =>
               /\ runners'[r].pc \in {"pclose_top", "pclose_in"}
               /\ jobObj'[id].state = "paused"]_vars

\* the runScrape invocation r, whose job is not the current one, takes a
\* step of its own in this step
PreemptedRunnerSteps(r) ==
  /\ runners[r].pc # "idle"
  /\ runners'[r] # runners[r]
  /\ runners[r].jobId # scrapeSession.currentJobId
  /\ scrapeSession'.currentJobId = scrapeSession.currentJobId

\* C29: while a runScrape of the current job is inside the page loop,
\* isScraping is set; and a step of a runScrape whose job is not the current
\* one changes none of isScraping, isPaused and pauseRequested
C29_FlagsTrackCurrentRunner ==
  /\ [](\A r \in Runners :
          (runners[r].pc \in LoopPcs
             /\ runners[r].jobId = scrapeSession.currentJobId)
            => scrapeSession.isScraping)
  /\ [][\A r \in Runners :
          PreemptedRunnerSteps(r) => scrapeSession' = scrapeSession]_vars

\* the positions of a runScrape that has been started and has not left the
\* page loop
RunningPcs == {"launch", "login", "licheck"} \cup LoopPcs

\* the positions of a runScrape that has left the page loop: it closes the
\* browser context and writes its last state
ClosingPcs == {"pclose_top", "pclose_in", "catchclose", "expclose", "wfinal"}

\* C30: while a runScrape of the current job J is running and J is
\* 'running', a step of an earlier runScrape of J that is closing its
\* context and writing its paused state leaves J 'running' in the cache and
\* writes no other state to J's file
C30_LateWriteKeepsRunning ==
  [][\A q \in Runners, r \in Runners :
       LET J == runners[q].jobId IN
       (/\ q # r
        /\ runners[q].pc \in RunningPcs
        /\ runners'[q] = runners[q]
        /\ J = scrapeSession.currentJobId
        /\ jobObj[J].state = "running"
        /\ runners[r].jobId = J
        /\ runners[r].pc \in ClosingPcs
        /\ runners'[r] # runners[r])
         => /\ jobObj'[J].state = "running"
            /\ disk'[J] # disk[J] => disk'[J].state = "running"]_vars

\* the test POST /resume makes before it resumes the current job
ResumeAccepted ==
  /\ scrapeSession.isPaused
  /\ scrapeSession.currentJobId # NoId
  /\ scrapeSession.currentJobId \in jobs

\* C31: whenever the current job is 'paused', POST /resume is accepted
C31_PausedIsResumable ==
  LET id == scrapeSession.currentJobId IN
  (id # NoId /\ id \in jobs /\ jobObj[id].state = "paused") => ResumeAccepted

\* DELETE /jobs/:id succeeds for job id in this step
Deletes(id) ==
  /\ started /\ startup.swept
  /\ id \in jobsCache /\ id \notin jobsCache'
  /\ disk'[id] = NoJob

\* C32: after DELETE /jobs/:id has succeeded the run and stop handlers do
\* not find the job, and the file of a deleted job is not written again
C32_DeletedIsGone ==
  [][\A id \in Ids :
       /\ Deletes(id) => id \notin jobs'
       /\ (/\ started /\ startup.swept
           /\ id \notin creating
           /\ disk[id] = NoJob /\ disk'[id] # NoJob) => jobObj[id] = NoJob]_vars

\* runSignalHire or runContactOut of the runScrape invocation r throws in
\* this step
ExtractionFails(r) ==
  /\ runners'[r].pc # runners[r].pc
  /\ budget' < budget
  /\ \/ runners[r].pc = "sh"
     \/ runners[r].pc = "co" /\ runners'[r].calls = <<"runContactOut">>

\* C33: when runSignalHire or runContactOut throws and no pause is due, the
\* job keeps its state and its totals and the runScrape goes on to the
\* scroll of the same page
C33_ExtractionContained ==
  [][\A r \in Runners :
       LET id == runners[r].jobId IN
       (ExtractionFails(r) /\ ~pauseOrPreempted(scrapeSession, id)) =>
          /\ jobObj'[id] = jobObj[id]
          /\ runners'[r].pc = "scroll"
          /\ runners'[r].currentPage = runners[r].currentPage
          /\ runners'[r].url = runners[r].url]_vars

\* runSignalHire has thrown on a page that has profiles, none of them in the
\* file, and the runScrape is at the scroll of that page with its job running
C33_Witness ==
  \E r \in Runners :
    LET id == runners[r].jobId IN
    /\ runners[r].pc = "scroll"
    /\ profiles > 0
    /\ csv[id][runners[r].url] = 0
    /\ jobObj[id].state = "running"
    /\ jobObj[id].totalRows = 0

\* the page iterations the claims about the ContactOut block look at: the
\* ones that have come to the scroll or the pagination, and the ones a
\* pause test has ended
AfterContactOut == {"scroll", "nav", "pclose_in"}

\* C34 as stated: in every page iteration runContactOut is called if and
\* only if runSignalHire returned a row, and when it is called the merge
\* and then deduplicateCsv follow it
C34_EnrichmentIffRows ==
  \A r \in Runners :
    runners[r].pc \in AfterContactOut =>
      /\ runners[r].shRows > 0 <=> runners[r].calls # <<>>
      /\ runners[r].calls # <<>> => runners[r].calls = ContactOutCalls

\* C34 as the code has it: runContactOut is called only when runSignalHire
\* returned a row, and in every iteration that comes to the scroll it has
\* been called then; the calls made are runContactOut, the merge and
\* deduplicateCsv in this order, up to the first one that throws
C34_EnrichmentOnlyWithRows ==
  \A r \in Runners :
    runners[r].pc \in AfterContactOut =>
      /\ runners[r].calls # <<>> => runners[r].shRows > 0
      /\ (runners[r].pc \in {"scroll", "nav"} /\ runners[r].shRows > 0)
           => runners[r].calls # <<>>
      /\ runners[r].calls =
           SubSeq(ContactOutCalls, 1, Len(runners[r].calls))

\* an iteration in which runSignalHire returned a row is at the pagination
\* with runContactOut, the merge and deduplicateCsv called
C34_Witness ==
  \E r \in Runners :
    /\ runners[r].pc = "nav"
    /\ runners[r].shRows > 0
    /\ runners[r].calls = ContactOutCalls

\* C35: when a job is completed, runContactOut has been called on every
\* page of it for which runSignalHire wrote a row to the output file
C35_EveryPageEnriched ==
  \A id \in Ids :
    (jobObj[id] # NoJob /\ jobObj[id].state = "completed") =>
      \A u \in Urls : csv[id][u] > 0 => u \in attempted[id]

\* C36: clickNextPage answers 'moved' only when the result page shown at
\* its return is another page than the one shown at the call
C36_MovedMeansAdvanced ==
  (nav.pc = "done" /\ nav.result = "moved") =>
    /\ view.fp # 0
    /\ PageOf(view.fp) # PageOf(nav.atStart.fp)

\* C37: in the attempt loop of clickNextPage an attempt whose wait for a
\* change ends at its deadline is followed by a reload before the next
\* attempt
C37_ReloadBetweenAttempts ==
  [][(nav.pc = "poll" /\ nav'.pc = "attempt") => nav'.reloads > nav.reloads]_vars

\* C38: a job that is 'running' or 'completed' has no stateReason, in the
\* cache and in its file
C38_NoStaleReason ==
  \A id \in Ids :
    /\ (jobObj[id] # NoJob /\ jobObj[id].state \in {"running", "completed"})
         => jobObj[id].stateReason = "none"
    /\ (disk[id] # NoJob /\ disk[id].state \in {"running", "completed"})
         => disk[id].stateReason = "none"

\* a step of POST /stop or POST /jobs/:id/stop: a request that starts no
\* runScrape and makes no job
StopRequestStep ==
  /\ budget' < budget
  /\ runners' = runners
  /\ jobs' = jobs
  /\ jobsCache' = jobsCache

\* C39: a stop request leaves a 'completed' job 'completed'
C39_CompletedIsTerminal ==
  [][\A id \in Ids :
       (/\ StopRequestStep
        /\ jobObj[id] # NoJob
        /\ jobObj[id].state = "completed")
         => jobObj'[id].state = "completed"]_vars

\* C40: a call of runContactOut or of ensureSidebarReadyWithRetries enters
\* its attempt at most `retries` times and re-logs in at most once in an
\* attempt; every failed attempt but the last one of a throwing call is
\* followed by one reload; the call returns out of the first attempt that
\* did not fail, runContactOut with at least one profile, and it throws
\* only when `retries` attempts have failed
C40_RetryProtocol ==
  /\ orch.entered <= orch.retries
  /\ orch.relogins <= 1
  /\ orch.pc \in {"try", "relogin", "wait"}
       => orch.failed = orch.entered - 1 /\ orch.reloads = orch.failed
  /\ orch.pc = "returned"
       => /\ orch.failed = orch.entered - 1
          /\ orch.reloads = orch.failed
          /\ orch.fn = "runContactOut" => orch.profiles > 0
  /\ orch.pc = "thrown"
       => /\ orch.entered = orch.retries
          /\ orch.failed = orch.retries
          /\ orch.reloads = orch.retries - 1

\* runContactOut has thrown after three attempts, of which the last one
\* re-logged in and collected no profile
C40_Witness ==
  /\ orch.fn = "runContactOut"
  /\ orch.pc = "thrown"
  /\ orch.lastError = "noprofiles"
  /\ orch.relogins = 1
  /\ orch.reloads = DEFAULTS.retries - 1

============================================================================
